---- MODULE Spec2Model ----
(***************************************************************************)
(* drekdice: a Shadowrun-style dice pool (class Roll) and the success test *)
(* built on it (class SuccessTest), as implemented in drekdice/dice.py.    *)
(*                                                                         *)
(* One object is followed through its life: it is built by Roll(...) or by *)
(* SuccessTest(...), then mutated by add and reroll, with the memoizing    *)
(* property reads interleaved.  random.randrange(a, b) is a free choice in *)
(* a..b-1; every value it returned during the last call is logged in drawn *)
(* together with the range that was requested.  SuccessTest.reroll is      *)
(* Roll.reroll on the test's roll, and the glitch, fumble and hits of a    *)
(* test are those of its roll.                                             *)
(***************************************************************************)
EXTENDS Integers, Sequences, FiniteSets

VARIABLES
    kind,               \* "none": no object yet; "Roll"; "SuccessTest"
    dice,               \* Roll._dice
    original_dice_pool, \* Roll._original_dice_pool
    _dice_pool,         \* Roll._dice_pool (memo, None when invalidated)
    _hits,              \* Roll._hits      (memo)
    _glitches,          \* Roll._glitches  (memo)
    edge,               \* the edge argument of the constructor (SuccessTest.edge)
    threshold,          \* SuccessTest._threshold (0 for a bare Roll)
    lastOp,             \* the last call: "init", "add", "reroll" or "read"
    lastArg,            \* its dice_pool argument
    raised,             \* whether it raised ValueError
    drawn,              \* the randrange calls it made, in order
    pc                  \* where a call followed step by step stands in _roll:
                        \* "for", "while", or "idle" when no call is running

vars == <<kind, dice, original_dice_pool, _dice_pool, _hits, _glitches,
          edge, threshold, lastOp, lastArg, raised, drawn, pc>>

pool == <<dice, original_dice_pool, _dice_pool, _hits, _glitches>>

-----------------------------------------------------------------------------
(* Bounds of the exploration. *)

MaxPool == 1        \* largest dice_pool passed to a constructor
MaxAdd == 2         \* largest dice_pool passed to add
MaxDice == 3        \* add is followed only up to this many dice in the pool
MaxReroll == 1      \* reroll is followed only up to this many rerolled dice

Thresholds == {-3, 0, 2}

(* A dice_pool argument: Python values of type int, and values of other    *)
(* types ("foo", 2.0, [2, 4, 3]), of which only the type matters.          *)
IntArg(n) == [type |-> "int", val |-> n]
OtherArg(t) == [type |-> t, val |-> 0]

PoolArgs == {IntArg(n) : n \in -1..MaxPool} \cup {OtherArg("str"), OtherArg("float")}
AddArgs == {IntArg(n) : n \in -1..MaxAdd} \cup {OtherArg("list")}

NoArg == IntArg(0)

-----------------------------------------------------------------------------
(* Memo cells: None, or a stored integer. *)

None == [set |-> FALSE, val |-> 0]
Some(v) == [set |-> TRUE, val |-> v]

-----------------------------------------------------------------------------
(* The random source. *)

randrange(a, b) == a..(b - 1)

Die(a, b, v) == [lo |-> a, hi |-> b, val |-> v, explode |-> FALSE]
Extra(a, b, v) == [lo |-> a, hi |-> b, val |-> v, explode |-> TRUE]

RECURSIVE Faces(_)
Faces(log) ==
    IF log = <<>> THEN <<>> ELSE <<Head(log).val>> \o Faces(Tail(log))

-----------------------------------------------------------------------------
(* Roll._roll *)

(* a validation that lets 0 through *)
ValidSizeNonNegative(dice_pool) == dice_pool.type = "int" /\ dice_pool.val >= 0

(* if type(dice_pool) != int or dice_pool < 1: raise ValueError *)
ValidSize(dice_pool) == dice_pool.type = "int" /\ dice_pool.val >= 1

(* the default of the edge parameter, with which reroll calls _roll *)
DefaultEdgeOn == TRUE

DefaultEdge == FALSE

(* while roll == 6: roll = random.randrange(1, 6); dice.append(roll) *)
RECURSIVE RuleOfSix(_)
RuleOfSix(roll) ==
    IF roll # 6 THEN {<<>>}
    ELSE UNION { { <<Extra(1, 6, r)>> \o rest : rest \in RuleOfSix(r) } :
                 r \in randrange(1, 6) }

(* one iteration of the for loop *)
OneDie(e) ==
    UNION { { <<Die(1, 7, r)>> \o rest :
              rest \in (IF r = 6 /\ e THEN RuleOfSix(r) ELSE {<<>>}) } :
            r \in randrange(1, 7) }

(* the logs of all runs of the for loop over range(n) *)
RECURSIVE _roll(_, _)
_roll(n, e) ==
    IF n = 0 THEN {<<>>}
    ELSE UNION { { d \o rest : rest \in _roll(n - 1, e) } : d \in OneDie(e) }

-----------------------------------------------------------------------------
(* The properties of Roll, as the value a read returns in the current state. *)

(* only a six counted as a hit *)
IsSix(d) == d > 5

IsHit(d) == d > 4
IsOne(d) == d = 1

(* a memo cell that is left as it is instead of being reset *)
Kept(cell) == cell

(* self._dice_pool = None, self._hits = None, self._glitches = None *)
Invalidated(cell) == None

dice_pool == IF _dice_pool = None THEN Len(dice) ELSE _dice_pool.val
hits == IF _hits = None THEN Len(SelectSeq(dice, IsHit)) ELSE _hits.val
glitches == IF _glitches = None THEN Len(SelectSeq(dice, IsOne)) ELSE _glitches.val

(* float(n) and x / k, exactly: a float is kept as a fraction num/den, den > 0 *)
float(n) == [num |-> n, den |-> 1]
FloatDiv(x, k) == [num |-> x.num, den |-> x.den * k]
IntGeFloat(i, x) == i * x.den >= x.num

(* the comparison with the integer quotient dice_pool / 2 *)
glitch_floor == glitches >= dice_pool \div 2

(* Roll.glitch, Roll.fumble *)
glitch == IntGeFloat(glitches, FloatDiv(float(dice_pool), 2))
fumble == glitch /\ hits = 0

(* SuccessTest.success, SuccessTest.net_hits, SuccessTest.crit *)
max(a, b) == IF b > a THEN b ELSE a
success == hits >= threshold
(* net hits without the floor at 0 *)
net_hits_unclamped == hits - threshold

net_hits == max(hits - threshold, 0)
crit == net_hits >= 4

-----------------------------------------------------------------------------
Init ==
    /\ kind = "none"
    /\ dice = <<>>
    /\ original_dice_pool = 0
    /\ _dice_pool = None
    /\ _hits = None
    /\ _glitches = None
    /\ edge = FALSE
    /\ threshold = 0
    /\ lastOp = "none"
    /\ lastArg = NoArg
    /\ raised = FALSE
    /\ drawn = <<>>
    /\ pc = "idle"

(* the number of dice after explosions, stored as the original pool *)
RolledDicePool(requested, rolled) == Len(rolled)

(* self._original_dice_pool = dice_pool *)
OriginalDicePool(requested, rolled) == requested

(* Roll.__init__, reached directly (k = "Roll") or from SuccessTest.__init__. *)
(* When _roll raises, the constructor call yields no object.                  *)
Construct(k, size, e, t) ==
    /\ kind = "none"
    /\ lastOp' = "init"
    /\ lastArg' = size
    /\ pc' = pc
    /\ IF ValidSize(size)
       THEN \E log \in _roll(size.val, e) :
              /\ kind' = k
              /\ original_dice_pool' = OriginalDicePool(size.val, Faces(log))
              /\ dice' = Faces(log)
              /\ _dice_pool' = Some(Len(Faces(log)))
              /\ _hits' = None
              /\ _glitches' = None
              /\ edge' = e
              /\ threshold' = t
              /\ raised' = FALSE
              /\ drawn' = log
       ELSE /\ raised' = TRUE
            /\ drawn' = <<>>
            /\ UNCHANGED <<kind, pool, edge, threshold>>

Roll__init__ == \E size \in PoolArgs, e \in BOOLEAN : Construct("Roll", size, e, 0)

SuccessTest__init__ ==
    \E size \in PoolArgs, e \in BOOLEAN, t \in Thresholds :
        Construct("SuccessTest", size, e, t)

(* add rolling with the edge flag the pool was built with *)
AddEdgeOfPool == edge

(* self._roll(dice_pool, edge=True) *)
AddEdge == TRUE

(* Roll.add, followed while the pool has at most cap dice.  SuccessTest has *)
(* no add of its own, so only a bare Roll is followed through it.           *)
AddDice(size, cap) ==
    /\ kind = "Roll"
    /\ size.type = "int" => Len(dice) + size.val <= cap
    /\ lastOp' = "add"
    /\ lastArg' = size
    /\ pc' = pc
    /\ IF ValidSize(size)
       THEN \E log \in _roll(size.val, AddEdge) :
              /\ Len(dice) + Len(log) <= cap
              /\ dice' = dice \o Faces(log)
              /\ _dice_pool' = Invalidated(_dice_pool)
              /\ _hits' = Invalidated(_hits)
              /\ _glitches' = Invalidated(_glitches)
              /\ raised' = FALSE
              /\ drawn' = log
       ELSE /\ raised' = TRUE
            /\ drawn' = <<>>
            /\ UNCHANGED <<dice, _dice_pool, _hits, _glitches>>
    /\ UNCHANGED <<kind, original_dice_pool, edge, threshold>>

Add(size) == AddDice(size, MaxDice)

add == \E size \in AddArgs : Add(size)

(* hits + self._roll(reroll_pool), the other way round *)
FreshThenKept(kept, fresh) == fresh \o kept

Rerolled(kept, fresh) == kept \o fresh

(* Roll.reroll, also reached through SuccessTest.reroll *)
reroll ==
    /\ kind # "none"
    /\ lastOp' = "reroll"
    /\ pc' = pc
    /\ LET kept == SelectSeq(dice, IsHit)
           reroll_pool == dice_pool - hits
       IN  /\ reroll_pool <= MaxReroll
           /\ lastArg' = NoArg
           /\ _dice_pool' = Some(dice_pool)
           /\ IF reroll_pool > 0
              THEN IF ValidSize(IntArg(reroll_pool))
                   THEN \E log \in _roll(reroll_pool, DefaultEdge) :
                          /\ dice' = Rerolled(kept, Faces(log))
                          /\ _hits' = Invalidated(_hits)
                          /\ _glitches' = Invalidated(_glitches)
                          /\ raised' = FALSE
                          /\ drawn' = log
                   ELSE /\ raised' = TRUE
                        /\ drawn' = <<>>
                        /\ _hits' = Some(hits)
                        /\ UNCHANGED <<dice, _glitches>>
              ELSE /\ _hits' = Some(hits)
                   /\ raised' = FALSE
                   /\ drawn' = <<>>
                   /\ UNCHANGED <<dice, _glitches>>
    /\ UNCHANGED <<kind, original_dice_pool, edge, threshold>>

(* Reading a property fills the memo cells it goes through; it takes no *)
(* argument, raises nothing and rolls nothing.                          *)
Read ==
    /\ lastOp' = "read"
    /\ lastArg' = NoArg
    /\ raised' = FALSE
    /\ drawn' = <<>>
    /\ pc' = pc

Read_dice_pool ==
    /\ kind # "none"
    /\ _dice_pool' = Some(dice_pool)
    /\ UNCHANGED <<kind, dice, original_dice_pool, _hits, _glitches,
                   edge, threshold>>
    /\ Read

Read_hits ==
    /\ kind # "none"
    /\ _hits' = Some(hits)
    /\ UNCHANGED <<kind, dice, original_dice_pool, _dice_pool, _glitches,
                   edge, threshold>>
    /\ Read

Read_glitches ==
    /\ kind # "none"
    /\ _glitches' = Some(glitches)
    /\ UNCHANGED <<kind, dice, original_dice_pool, _dice_pool, _hits,
                   edge, threshold>>
    /\ Read

Read_glitch ==
    /\ kind # "none"
    /\ _glitches' = Some(glitches)
    /\ _dice_pool' = Some(dice_pool)
    /\ UNCHANGED <<kind, dice, original_dice_pool, _hits,
                   edge, threshold>>
    /\ Read

(* self.glitch and not self.hits: hits is read only when glitch is true *)
Read_fumble ==
    /\ kind # "none"
    /\ _glitches' = Some(glitches)
    /\ _dice_pool' = Some(dice_pool)
    /\ _hits' = IF glitch THEN Some(hits) ELSE _hits
    /\ UNCHANGED <<kind, dice, original_dice_pool, edge, threshold>>
    /\ Read

(* SuccessTest.success, net_hits and crit all read self.roll.hits *)
Read_success ==
    /\ kind = "SuccessTest"
    /\ _hits' = Some(hits)
    /\ UNCHANGED <<kind, dice, original_dice_pool, _dice_pool, _glitches,
                   edge, threshold>>
    /\ Read

Next ==
    \/ Roll__init__
    \/ SuccessTest__init__
    \/ add
    \/ reroll
    \/ Read_dice_pool
    \/ Read_success
    \/ Read_hits
    \/ Read_glitches
    \/ Read_glitch
    \/ Read_fumble

Spec == Init /\ [][Next]_vars

-----------------------------------------------------------------------------
(* The scripted scenario: Roll(3) without edge has rolled 1, 2, 3, and one *)
(* add(3) follows, with every outcome of the random source.                *)

ScriptPool == <<1, 2, 3>>
ScriptFeed == <<6, 2, 3, 6, 1, 4>>

InitScript ==
    /\ kind = "Roll"
    /\ dice = ScriptPool
    /\ original_dice_pool = Len(ScriptPool)
    /\ _dice_pool = Some(Len(ScriptPool))
    /\ _hits = None
    /\ _glitches = None
    /\ edge = FALSE
    /\ threshold = 0
    /\ lastOp = "init"
    /\ lastArg = IntArg(Len(ScriptPool))
    /\ raised = FALSE
    /\ drawn = <<Die(1, 7, 1), Die(1, 7, 2), Die(1, 7, 3)>>
    /\ pc = "idle"

add_scripted ==
    /\ lastOp = "init"
    /\ AddDice(IntArg(3), Len(ScriptPool) + Len(ScriptFeed))

NextScript ==
    \/ add_scripted
    \/ Read_dice_pool
    \/ Read_hits
    \/ Read_glitches
    \/ Read_glitch
    \/ Read_fumble

SpecScript == InitScript /\ [][NextScript]_vars

-----------------------------------------------------------------------------
(* The calls followed step by step through the loops of Roll._roll.  While *)
(* a call runs, lastOp is the caller, lastArg the dice_pool parameter of   *)
(* _roll, and drawn the rolls made so far: the local list dice of _roll is *)
(* Faces(drawn).  A step is one call of random.randrange with the append   *)
(* that follows it.  Properties are read between calls.                    *)

NumRolled(log) == Len(SelectSeq(log, LAMBDA r : ~r.explode))

(* the edge parameter of the running _roll *)
RollEdge ==
    IF lastOp = "init" THEN edge
    ELSE IF lastOp = "add" THEN AddEdge
    ELSE DefaultEdge

(* Roll(dice_pool, edge), or SuccessTest(dice_pool, threshold, edge), up to *)
(* the entry into the for loop of _roll                                     *)
BeginConstruct(k, size, e, t) ==
    /\ pc = "idle"
    /\ kind = "none"
    /\ lastOp' = "init"
    /\ lastArg' = size
    /\ drawn' = <<>>
    /\ IF ValidSize(size)
       THEN /\ raised' = FALSE
            /\ pc' = "for"
            /\ kind' = k
            /\ edge' = e
            /\ threshold' = t
            /\ original_dice_pool' = OriginalDicePool(size.val, <<>>)
            /\ UNCHANGED <<dice, _dice_pool, _hits, _glitches>>
       ELSE /\ raised' = TRUE
            /\ pc' = "idle"
            /\ UNCHANGED <<kind, pool, edge, threshold>>

BeginInit ==
    \E size \in PoolArgs, e \in BOOLEAN :
        \/ BeginConstruct("Roll", size, e, 0)
        \/ \E t \in Thresholds : BeginConstruct("SuccessTest", size, e, t)

(* add(dice_pool) up to the entry into the for loop *)
BeginAdd ==
    \E size \in AddArgs :
        /\ pc = "idle"
        /\ kind = "Roll"
        /\ size.type = "int" => Len(dice) + 2 * size.val <= MaxDice
        /\ lastOp' = "add"
        /\ lastArg' = size
        /\ drawn' = <<>>
        /\ raised' = ~ValidSize(size)
        /\ pc' = IF ValidSize(size) THEN "for" ELSE "idle"
        /\ UNCHANGED <<kind, pool, edge, threshold>>

(* reroll() up to the entry into the for loop, or to its end when there is *)
(* nothing to reroll                                                       *)
BeginReroll ==
    LET reroll_pool == dice_pool - hits
    IN  /\ pc = "idle"
        /\ kind # "none"
        /\ reroll_pool <= MaxReroll
        /\ lastOp' = "reroll"
        /\ lastArg' = IntArg(reroll_pool)
        /\ drawn' = <<>>
        /\ _dice_pool' = Some(dice_pool)
        /\ _hits' = Some(hits)
        /\ raised' = (reroll_pool > 0 /\ ~ValidSize(IntArg(reroll_pool)))
        /\ pc' = IF reroll_pool > 0 /\ ValidSize(IntArg(reroll_pool))
                 THEN "for" ELSE "idle"
        /\ UNCHANGED <<kind, dice, original_dice_pool, _glitches, edge, threshold>>

(* for i in range(dice_pool): roll = random.randrange(1, 7); *)
(* dice.append(roll); if roll == 6 and edge: ...             *)
ForStep ==
    /\ pc = "for"
    /\ NumRolled(drawn) < lastArg.val
    /\ \E r \in randrange(1, 7) :
         /\ drawn' = Append(drawn, Die(1, 7, r))
         /\ pc' = IF r = 6 /\ RollEdge THEN "while" ELSE "for"
    /\ UNCHANGED <<kind, pool, edge, threshold, lastOp, lastArg, raised>>

(* the extra roll drawn from 1..6 *)
WhileStepUpToSix ==
    /\ pc = "while"
    /\ \E r \in randrange(1, 7) :
         /\ drawn' = Append(drawn, Extra(1, 7, r))
         /\ pc' = IF r = 6 THEN "while" ELSE "for"
    /\ UNCHANGED <<kind, pool, edge, threshold, lastOp, lastArg, raised>>

(* while roll == 6: roll = random.randrange(1, 6); dice.append(roll) *)
WhileStep ==
    /\ pc = "while"
    /\ \E r \in randrange(1, 6) :
         /\ drawn' = Append(drawn, Extra(1, 6, r))
         /\ pc' = IF r = 6 THEN "while" ELSE "for"
    /\ UNCHANGED <<kind, pool, edge, threshold, lastOp, lastArg, raised>>

(* return dice, and what the caller does with the list *)
ReturnRoll ==
    /\ pc = "for"
    /\ NumRolled(drawn) = lastArg.val
    /\ pc' = "idle"
    /\ CASE lastOp = "init" ->
              /\ dice' = Faces(drawn)
              /\ _dice_pool' = Some(Len(Faces(drawn)))
              /\ _hits' = None
              /\ _glitches' = None
         [] lastOp = "add" ->
              /\ dice' = dice \o Faces(drawn)
              /\ _dice_pool' = Invalidated(_dice_pool)
              /\ _hits' = Invalidated(_hits)
              /\ _glitches' = Invalidated(_glitches)
         [] lastOp = "reroll" ->
              /\ dice' = Rerolled(SelectSeq(dice, IsHit), Faces(drawn))
              /\ _hits' = Invalidated(_hits)
              /\ _glitches' = Invalidated(_glitches)
              /\ UNCHANGED _dice_pool
    /\ UNCHANGED <<kind, original_dice_pool, edge, threshold,
                   lastOp, lastArg, raised, drawn>>

(* a property read between two calls *)
ReadBetweenCalls ==
    /\ pc = "idle"
    /\ \/ Read_dice_pool
       \/ Read_success
       \/ Read_hits
       \/ Read_glitches
       \/ Read_glitch
       \/ Read_fumble

NextSteps ==
    \/ BeginInit
    \/ BeginAdd
    \/ BeginReroll
    \/ ForStep
    \/ WhileStep
    \/ ReturnRoll
    \/ ReadBetweenCalls

(* the interpreter runs a call that has begun to its end; nothing makes *)
(* the caller begin another call                                        *)
SpecSteps ==
    /\ Init
    /\ [][NextSteps]_vars
    /\ WF_vars(ForStep)
    /\ WF_vars(WhileStep)
    /\ WF_vars(ReturnRoll)

-----------------------------------------------------------------------------
(* What the properties are stated with: counts taken from the faces, *)
(* and the shape of a log of rolls.                                  *)

NumHits(s) == Len(SelectSeq(s, LAMBDA d : d > 4))
NumOnes(s) == Len(SelectSeq(s, LAMBDA d : d = 1))
HitsOf(s) == SelectSeq(s, LAMBDA d : d > 4)
(* every six, and nothing else, is followed by an extra roll *)
RuleOfSixShape(log) ==
    /\ log # <<>> => ~log[1].explode
    /\ \A i \in 1..Len(log) :
         /\ log[i].val = 6 => (i < Len(log) /\ log[i + 1].explode)
         /\ (i > 1 /\ log[i].explode) => log[i - 1].val = 6

(* no roll is an extra one *)
PlainShape(log) == \A i \in 1..Len(log) : ~log[i].explode

RerollStep == lastOp' = "reroll"
AddStep == lastOp' = "add"

-----------------------------------------------------------------------------
(* C1: reroll() never changes the number of faces: after every reroll call *)
(* the faces are as many as before and size() returns what it returned     *)
(* before, also when a rerolled die shows 6.                               *)
C1_RerollKeepsSize ==
    [][RerollStep => (Len(dice') = Len(dice) /\ dice_pool' = dice_pool)]_vars

(* a reroll of an edge pool has just rolled a 6 *)
C1_Witness ==
    /\ lastOp = "reroll"
    /\ edge
    /\ \E i \in 1..Len(drawn) : drawn[i].val = 6

(* C2: when at least one face is not a hit, reroll() replaces the faces by *)
(* the old hits (faces > 4) in their old order and with their old values,  *)
(* followed by exactly size - hit_count freshly rolled faces in roll order.*)
C2_RerollKeepsHits ==
    [][(RerollStep /\ Len(dice) > NumHits(dice)) =>
          /\ dice' = HitsOf(dice) \o Faces(drawn')
          /\ Len(drawn') = Len(dice) - NumHits(dice)
          /\ PlainShape(drawn')
          /\ ~raised']_vars

(* a reroll has kept a 5 and a 6, in this order, and rolled one more face *)
C2_Witness ==
    /\ lastOp = "reroll"
    /\ Len(dice) = 3
    /\ Len(drawn) = 1
    /\ dice[1] = 5
    /\ dice[2] = 6

(* C3: add(k) with an integer k >= 1 rolls k dice with the exploding-six   *)
(* rule enabled, whatever edge the pool was built with, and appends the    *)
(* rolled faces in roll order after the existing faces, which stay put.    *)
C3_AddExplodesAndAppends ==
    [][(AddStep /\ lastArg'.type = "int" /\ lastArg'.val >= 1) =>
          /\ ~raised'
          /\ dice' = dice \o Faces(drawn')
          /\ NumRolled(drawn') = lastArg'.val
          /\ RuleOfSixShape(drawn')]_vars

(* a pool built without edge, whose own six did not explode, has had one *)
(* die added, a six that exploded                                        *)
C3_Witness ==
    /\ lastOp = "add"
    /\ ~edge
    /\ dice[1] = 6
    /\ NumRolled(drawn) = 1
    /\ Len(drawn) = 2
    /\ Len(dice) = 3

(* C4: in an exploding roll (a constructor with edge, or add) every six is *)
(* followed by extra rolls, each drawn from 1..6, which go on as long as   *)
(* the new face is a six and stop with the first other face; without edge *)
(* the constructor makes no extra roll.                                    *)
C4_ExtraRollsFromOneToSix ==
    (lastOp \in {"init", "add"} /\ ~raised) =>
        IF lastOp = "add" \/ edge
        THEN /\ RuleOfSixShape(drawn)
             /\ \A i \in 1..Len(drawn) :
                  randrange(drawn[i].lo, drawn[i].hi) = 1..6
        ELSE PlainShape(drawn)

(* C5: the memoized statistics are never stale: whatever was called and   *)
(* read before, size() is the number of faces, hit_count() the number of  *)
(* faces > 4 and glitch_count() the number of faces equal to 1.           *)
C5_MemoNeverStale ==
    kind # "none" =>
        /\ dice_pool = Len(dice)
        /\ hits = NumHits(dice)
        /\ glitches = NumOnes(dice)
        /\ _dice_pool.set => _dice_pool.val = Len(dice)
        /\ _hits.set => _hits.val = NumHits(dice)
        /\ _glitches.set => _glitches.val = NumOnes(dice)

(* all three statistics have been read and memoized again after an add to *)
(* a pool built without edge                                              *)
C5_Witness ==
    /\ lastOp = "read"
    /\ ~edge
    /\ Len(dice) > original_dice_pool
    /\ NumHits(dice) > 0
    /\ NumOnes(dice) > 0
    /\ _dice_pool.set
    /\ _hits.set
    /\ _glitches.set

(* C6: for a SuccessTest with any integer threshold, is_success() holds   *)
(* iff hit_count() >= threshold, net_hits() is max(hit_count() -          *)
(* threshold, 0), is_critical() holds iff net_hits() >= 4, and            *)
(* is_critical() implies is_success().                                    *)
C6_SuccessNetHitsCrit ==
    kind = "SuccessTest" =>
        LET over == NumHits(dice) - threshold
        IN  /\ success <=> NumHits(dice) >= threshold
            /\ net_hits = (IF over > 0 THEN over ELSE 0)
            /\ crit <=> over >= 4
            /\ crit <=> net_hits >= 4
            /\ crit => success

(* a test with a negative threshold has become critical by a reroll *)
C6_Witness ==
    /\ kind = "SuccessTest"
    /\ lastOp = "reroll"
    /\ threshold < 0
    /\ NumHits(dice) = 1
    /\ drawn # <<>>
    /\ crit

C8_InvalidSizeRaises ==
    [][(lastOp' \in {"init", "add"} /\
        ~(lastArg'.type = "int" /\ lastArg'.val >= 1)) =>
          /\ raised'
          /\ drawn' = <<>>
          /\ UNCHANGED <<kind, dice, original_dice_pool>>
          /\ dice_pool' = dice_pool
          /\ hits' = hits
          /\ glitches' = glitches]_vars

(* add(0) has just failed on a pool of two dice *)
C8_Witness ==
    /\ lastOp = "add"
    /\ lastArg = IntArg(0)
    /\ raised
    /\ Len(dice) = 2

(* C9, as claimed: Roll(3) without edge rolled 1, 2, 3; add(3) fed the    *)
(* scripted sequence 6, 2, 3, 6, 1, 4 ends with the faces                 *)
(* 1, 2, 3, 6, 2, 3, 6, 1, 4 and size 9.                                  *)
IsPrefix(s, t) == Len(s) <= Len(t) /\ s = SubSeq(t, 1, Len(s))

FedTheScript == lastOp = "add" /\ ~raised /\ IsPrefix(Faces(drawn), ScriptFeed)

C9_ScriptedAddGivesNine ==
    FedTheScript =>
        /\ dice = <<1, 2, 3, 6, 2, 3, 6, 1, 4>>
        /\ dice_pool = 9

(* C9, amended: the add consumes 6, 2, 3, 6, 1 only (each six takes one   *)
(* extra roll) and ends with the faces 1, 2, 3, 6, 2, 3, 6, 1 and size 8. *)
C9_ScriptedAddGivesEight ==
    FedTheScript =>
        /\ Faces(drawn) = SubSeq(ScriptFeed, 1, 5)
        /\ dice = <<1, 2, 3, 6, 2, 3, 6, 1>>
        /\ dice_pool = 8

(* the scripted add has run *)
C9_Witness ==
    /\ lastOp = "add"
    /\ Faces(drawn) = <<6, 2, 3, 6, 1>>
    /\ Len(dice) = 8

(* C10: original_size() is the size requested at construction, add and    *)
(* reroll never change it, and len(faces) >= original_size() >= 1 in      *)
(* every state of a pool.                                                 *)
C10_OriginalSizeFixed ==
    [][/\ (kind = "none" /\ kind' # "none") =>
             original_dice_pool' = lastArg'.val
       /\ kind # "none" => original_dice_pool' = original_dice_pool
       /\ kind' # "none" =>
             (Len(dice') >= original_dice_pool' /\ original_dice_pool' >= 1)]_vars

(* a pool built with edge from one die that exploded has had a die added *)
(* and was then rerolled                                                  *)
C10_Witness ==
    /\ lastOp = "reroll"
    /\ edge
    /\ original_dice_pool = 1
    /\ Len(dice) = 3
    /\ drawn # <<>>

(* C11: hit_count() never decreases: after every successful add and every *)
(* reroll the faces > 4 are at least as many as before and hit_count()    *)
(* returns at least what it returned before; so a SuccessTest that was a  *)
(* success, or critical, before a reroll is one after it.                 *)
C11_HitsNeverDecrease ==
    [][(lastOp' \in {"add", "reroll"} /\ ~raised') =>
          /\ NumHits(dice') >= NumHits(dice)
          /\ hits' >= hits
          /\ (kind = "SuccessTest" /\ lastOp' = "reroll") =>
                /\ success => success'
                /\ crit => crit']_vars

(* a critical test has kept its six through a reroll that rolled no hit *)
C11_Witness ==
    /\ kind = "SuccessTest"
    /\ lastOp = "reroll"
    /\ Len(dice) = 2
    /\ dice[1] = 6
    /\ Len(drawn) = 1
    /\ drawn[1].val < 5
    /\ crit

(* C12: every constructor, add and reroll call ends, whatever the random  *)
(* source returns in the ranges requested; a call rolling n dice makes at *)
(* most 2n faces, and reroll makes exactly size - hit_count new ones.     *)
InCall == pc # "idle"

====
